---------------------------- MODULE Spec2Model ----------------------------
(***************************************************************************)
(* A model of AWSCost (src/main.py): size_converter, AWSClient.s3_usage    *)
(* and AWSClient.cost_explorer.                                            *)
(*                                                                         *)
(* Representation of Python values                                         *)
(*   int (byte sizes)  a sequence of base-1024 digits, least significant   *)
(*                     first, without a leading zero digit; <<>> is 0. A   *)
(*                     negative int has negative digits. Python ints are   *)
(*                     unbounded and the byte counts of the program pass   *)
(*                     2^31, the largest number TLC computes with.         *)
(*   float (amounts)   an integer count of 10^-5 dollars.                  *)
(*   str (rendered)    a sequence of tokens: one token per character of a  *)
(*                     numeral, one token per unit name.                   *)
(*   dict              a sequence of [key, value] records in insertion     *)
(*                     order, each key once.                               *)
(***************************************************************************)
EXTENDS Integers, Sequences, FiniteSets, TLC

VARIABLES
    pc,                 \* position of the running call
    raised,             \* the exception that ended the call, or NoException
    stdout,             \* what the call has printed, in order
    \* size_converter
    byte_size,          \* its argument
    result,             \* its return value
    \* s3_usage
    buckets,            \* response["Buckets"] of list_buckets
    bucket_idx,         \* index in buckets of the bucket being scanned
    pages,              \* pages the paginator has yielded, per bucket
    total_size,
    total_bucket_size,
    number_of_ojects,
    bucket_values,
    \* cost_explorer
    args,               \* start_date and end_date as the caller passed them
    start_date,
    end_date,
    now,
    total,
    granularity,
    ce_calls,           \* calls made to ce_client.get_cost_and_usage
    response,           \* response["ResultsByTime"], as far as it was read
    total_cost,
    cost_breakdown

vars == <<pc, raised, stdout, byte_size, result, buckets, bucket_idx, pages,
          total_size, total_bucket_size, number_of_ojects, bucket_values,
          args, start_date, end_date, now, total, granularity, ce_calls,
          response, total_cost, cost_breakdown>>

sizeVars == <<byte_size, result>>
usageVars == <<buckets, bucket_idx, pages, total_size, total_bucket_size,
               number_of_ojects, bucket_values>>
costVars == <<args, start_date, end_date, now, total, granularity, ce_calls,
              response, total_cost, cost_breakdown>>

NoException == [type |-> "NoException"]
None == [t |-> "None"]

---------------------------------------------------------------------------
(* Python ints as base-1024 digit sequences *)

Base == 1024

RECURSIVE Num(_)
\* The digit sequence of the number n >= 0.
Num(n) == IF n = 0 THEN <<>> ELSE <<n % Base>> \o Num(n \div Base)

\* The digit sequence of -n, for n > 0.
Minus(n) == [i \in 1..Len(Num(n)) |-> 0 - Num(n)[i]]

RECURSIVE Pow1024(_)
\* The digit sequence of 1024^i.
Pow1024(i) == IF i = 0 THEN <<1>> ELSE <<0>> \o Pow1024(i - 1)

RECURSIVE Strip(_)
Strip(d) == IF d # <<>> /\ d[Len(d)] = 0 THEN Strip(SubSeq(d, 1, Len(d) - 1)) ELSE d

RECURSIVE AddCarry(_, _, _)
AddCarry(a, b, c) ==
    IF a = <<>> /\ b = <<>> THEN (IF c = 0 THEN <<>> ELSE <<c>>)
    ELSE LET x == IF a = <<>> THEN 0 ELSE Head(a)
             y == IF b = <<>> THEN 0 ELSE Head(b)
             s == x + y + c
         IN  <<s % Base>> \o AddCarry(IF a = <<>> THEN a ELSE Tail(a),
                                      IF b = <<>> THEN b ELSE Tail(b),
                                      s \div Base)

\* a + b for a, b >= 0.
Add(a, b) == Strip(AddCarry(a, b, 0))

RECURSIVE Less(_, _)
\* a < b for a, b >= 0.
Less(a, b) ==
    IF Len(a) # Len(b) THEN Len(a) < Len(b)
    ELSE IF a = <<>> THEN FALSE
    ELSE IF a[Len(a)] # b[Len(b)] THEN a[Len(a)] < b[Len(b)]
    ELSE Less(SubSeq(a, 1, Len(a) - 1), SubSeq(b, 1, Len(b) - 1))

RECURSIVE SumRange(_, _, _)
\* s[lo] + ... + s[hi] for a sequence of ints >= 0, by halves.
SumRange(s, lo, hi) ==
    IF lo > hi THEN <<>>
    ELSE IF lo = hi THEN s[lo]
    ELSE LET mid == (lo + hi) \div 2
         IN  Add(SumRange(s, lo, mid), SumRange(s, mid + 1, hi))

SumSeq(s) == SumRange(s, 1, Len(s))

---------------------------------------------------------------------------
(* Rendering of numbers *)

DigitChar == <<"0", "1", "2", "3", "4", "5", "6", "7", "8", "9">>

RECURSIVE Digits(_)
\* str(n) for a Python int n >= 0 that TLC can hold.
Digits(n) == IF n < 10 THEN <<DigitChar[n + 1]>>
             ELSE Digits(n \div 10) \o <<DigitChar[(n % 10) + 1]>>

\* repr of the float h / 100, for h >= 0: the shortest decimal that reads back
\* as the float, with at least one fractional digit.
PyFloat2(h) ==
    LET f == h % 100
    IN  Digits(h \div 100) \o <<".">> \o
        (IF f % 10 = 0 THEN <<DigitChar[(f \div 10) + 1]>>
         ELSE <<DigitChar[(f \div 10) + 1], DigitChar[(f % 10) + 1]>>)

---------------------------------------------------------------------------
(* size_converter *)

size_name == <<"B", "KB", "MB", "GB", "TB", "PB", "EB", "ZB", "YB">>

\* byte_size <= 0
LeqZero(b) == b = <<>> \/ b[Len(b)] < 0

\* int(math.floor(math.log(byte_size, 1024))) for byte_size > 0: one less than
\* the number of base-1024 digits. math.log works in double precision and on
\* CPython returns a whole number already for 1024^5 - 3 <= byte_size < 1024^5;
\* the byte sizes of this model stay clear of that.
FloorLog1024(b) == Len(b) - 1

RECURSIVE Frac200(_, _)
\* For the fraction f = (d[1] + d[2] * 1024 + ... + d[k] * 1024^(k-1)) / 1024^k:
\* <<floor(200 * f), whether 200 * f is whole>>.
Frac200(d, k) ==
    IF k = 0 THEN <<0, TRUE>>
    ELSE LET low == Frac200(d, k - 1)
             n == d[k] * 200 + low[1]
         IN  <<n \div Base, low[2] /\ n % Base = 0>>

\* RoundedQuotient with the quotient cut to 2 decimals instead of rounded.
RoundedQuotient_Truncating(b, index) == b[index + 1] * 100 + Frac200(b, index)[1] \div 2

\* round(byte_size / pow(1024, index), 2), in hundredths. The quotient is an
\* exact double below 2^53 bytes, and round() rounds the double's exact value,
\* a tie to the even hundredth.
RoundedQuotient(b, index) ==
    LET t == Frac200(b, index)
        down == t[1] \div 2
        h == IF t[1] % 2 = 0 THEN down
             ELSE IF t[2] THEN (IF down % 2 = 0 THEN down ELSE down + 1)
             ELSE down + 1
    IN  b[index + 1] * 100 + h

size_converter(b) ==
    IF LeqZero(b) THEN <<"0", " ", "B">>
    ELSE LET index == FloorLog1024(b)
         IN  IF index + 1 > Len(size_name) THEN <<"IndexError">>
             ELSE PyFloat2(RoundedQuotient(b, index)) \o <<" ", size_name[index + 1]>>

\* Byte sizes size_converter is called with: around zero, around each power of
\* 1024 up to 1024^4, and multiples of 128 bytes (eighths of a KB), of 128 KB
\* and of 128 MB.
MaxEighths == 24

SizeInputs ==
    {Minus(5), Minus(1), Num(0), Num(1), Num(2), Num(1000), Num(1023)}
    \cup {Num(128 * k) : k \in 1..MaxEighths}
    \cup {Num(131072 * k) : k \in 1..MaxEighths}
    \cup {Num(134217728 * k) : k \in 1..15}
    \cup {Pow1024(i) : i \in 0..4}
    \cup {Add(Pow1024(i), Num(1)) : i \in 1..4}
    \cup {Add(Pow1024(i), Num(5)) : i \in 1..4}
    \cup {Num(1048575), Num(1073741823), <<1023, 1023, 1023, 1023>>}

InitSize ==
    /\ pc = "size_converter"
    /\ raised = NoException
    /\ stdout = <<>>
    /\ byte_size \in SizeInputs
    /\ result = None
    /\ buckets = <<>> /\ bucket_idx = 0 /\ pages = <<>> /\ total_size = <<>>
    /\ total_bucket_size = <<>> /\ number_of_ojects = 0 /\ bucket_values = <<>>
    /\ args = None /\ start_date = None /\ end_date = None /\ now = None
    /\ total = FALSE
    /\ granularity = "MONTHLY" /\ ce_calls = <<>> /\ response = <<>>
    /\ total_cost = [isfloat |-> FALSE, v |-> 0] /\ cost_breakdown = <<>>

CallSizeConverter ==
    /\ pc = "size_converter"
    /\ result' = size_converter(byte_size)
    /\ pc' = "returned"
    /\ UNCHANGED <<raised, stdout, byte_size, usageVars, costVars>>

NextSize == CallSizeConverter

SpecSize == InitSize /\ [][NextSize]_vars

---------------------------------------------------------------------------
(* Reading a rendered size back *)

DigitVal(c) == CHOOSE i \in 0..9 : DigitChar[i + 1] = c

IsNumeral(s) == s # <<>> /\ \A i \in 1..Len(s) : \E j \in 1..10 : DigitChar[j] = s[i]

RECURSIVE IntOf(_)
IntOf(s) == IF s = <<>> THEN 0
            ELSE IntOf(SubSeq(s, 1, Len(s) - 1)) * 10 + DigitVal(s[Len(s)])

UnitIndex(u) == CHOOSE i \in 0..8 : size_name[i + 1] = u

RECURSIVE MulCarry(_, _, _)
MulCarry(a, k, c) ==
    IF a = <<>> THEN Num(c)
    ELSE <<(Head(a) * k + c) % Base>> \o MulCarry(Tail(a), k, (Head(a) * k + c) \div Base)

\* a * k for a >= 0 and a small number k >= 0.
MulSmall(a, k) == Strip(MulCarry(a, k, 0))

\* a * 1024^i for a >= 0.
Shift(a, i) == IF a = <<>> THEN a ELSE [j \in 1..i |-> 0] \o a

Leq(a, b) == ~Less(b, a)

\* The text r is "<whole>.<one or two digits> <unit>", the unit is the largest
\* with 1024^i <= b, and <whole>.<digits> is b / 1024^i to the nearest
\* hundredth (a tie to the even one) in its shortest form.
RendersFloat(b, r) ==
    LET n == Len(r)
    IN  /\ n >= 5
        /\ r[n - 1] = " "
        /\ \E i \in 0..8 : size_name[i + 1] = r[n]
        /\ \E dot \in 2..(n - 3) :
            LET whole == SubSeq(r, 1, dot - 1)
                frac == SubSeq(r, dot + 1, n - 2)
                i == UnitIndex(r[n])
                v == IntOf(whole) * 100
                     + (IF Len(frac) = 1 THEN 10 * IntOf(frac) ELSE IntOf(frac))
                lo == Shift(Num(2 * v - 1), i)
                hi == Shift(Num(2 * v + 1), i)
                b200 == MulSmall(b, 200)
            IN  /\ r[dot] = "."
                /\ IsNumeral(whole) /\ IsNumeral(frac)
                /\ Len(frac) \in {1, 2}
                /\ Len(frac) = 2 => frac[2] # "0"
                /\ Len(whole) > 1 => whole[1] # "0"
                /\ Leq(Pow1024(i), b) /\ Less(b, Pow1024(i + 1))
                /\ Leq(lo, b200) /\ Leq(b200, hi)
                /\ (lo = b200 \/ hi = b200) => v % 2 = 0

\* C9 (as amended): size_converter(b) is "0 B" for b <= 0; for b >= 1 in the
\* model's range it is b / 1024^i rounded to 2 decimals, always with a
\* fractional part, and the unit of the largest i with 1024^i <= b; so
\* 1024 gives "1.0 KB", 1073741824 gives "1.0 GB", 1536 gives "1.5 KB".
C9_FormatsAsFloat ==
    pc = "returned" =>
        /\ LeqZero(byte_size) => result = <<"0", " ", "B">>
        /\ ~LeqZero(byte_size) => RendersFloat(byte_size, result)
        /\ byte_size = Num(1024) => result = <<"1", ".", "0", " ", "KB">>
        /\ byte_size = Num(1536) => result = <<"1", ".", "5", " ", "KB">>
        /\ byte_size = Num(1073741824) => result = <<"1", ".", "0", " ", "GB">>
        /\ \A i \in 0..4 : byte_size = Pow1024(i) =>
               result = <<"1", ".", "0", " ", size_name[i + 1]>>

\* C9 witness: size_converter has returned for 1024, an exact power with a
\* whole-number quotient.
C9_Witness ==
    pc = "returned" /\ byte_size = Num(1024) /\ result = <<"1", ".", "0", " ", "KB">>

\* What the specification says size_converter returns: as above, but a whole-number
\* value carries no fractional part.
ClaimedSize(b) ==
    IF LeqZero(b) THEN <<"0", " ", "B">>
    ELSE LET index == FloorLog1024(b)
             h == RoundedQuotient(b, index)
         IN  (IF h % 100 = 0 THEN Digits(h \div 100) ELSE PyFloat2(h))
             \o <<" ", size_name[index + 1]>>

\* C9 (as stated): a whole-number value carries no fractional part, so that
\* size_converter(1024) is "1 KB" and size_converter(1073741824) is "1 GB".
C9_AsStated == pc = "returned" => result = ClaimedSize(byte_size)

---------------------------------------------------------------------------
(* dict *)

DictHas(d, k) == \E i \in 1..Len(d) : d[i].key = k

DictGet(d, k) == d[CHOOSE i \in 1..Len(d) : d[i].key = k].value

DictKeys(d) == [i \in 1..Len(d) |-> d[i].key]

\* d[k] = v: a new key goes to the end, a key already there keeps its place.
DictSet(d, k, v) ==
    IF DictHas(d, k)
    THEN [i \in 1..Len(d) |-> IF d[i].key = k THEN [key |-> k, value |-> v] ELSE d[i]]
    ELSE Append(d, [key |-> k, value |-> v])

---------------------------------------------------------------------------
(* s3_usage *)

MaxBuckets == 2         \* buckets list_buckets returns
MaxPages == 3           \* pages the paginator yields in one call of s3_usage
BigPageLen == 85        \* objects of the largest size on one page

BucketName == <<"A", "B", "C", "D">>

\* response["Buckets"], as indexes in BucketName: the first n buckets of the
\* account in the order of their names, or the first two in the other order.
\* Bucket names are unique within an account.
BucketLists == {[i \in 1..n |-> i] : n \in 0..MaxBuckets} \cup {<<2, 1>>}

Bucket(i) == [Name |-> BucketName[i]]

PageOf(sizes) == [KeyCount |-> Len(sizes),
                  Contents |-> [i \in 1..Len(sizes) |-> [Size |-> sizes[i]]]]

\* A page of list_objects_v2 without the "Contents" key.
NoContentsPage == [KeyCount |-> 0]

\* 5 TB, the largest object S3 stores.
LargestObject == <<0, 0, 0, 0, 5>>

\* The pages a paginator may yield.
Pages ==
    {NoContentsPage, PageOf(<<>>), PageOf(<<Num(100), Num(200)>>), PageOf(<<Num(50)>>),
     PageOf([i \in 1..BigPageLen |-> LargestObject])}

\* What the S3 client raises: botocore's ClientError, whose error response
\* names the bucket for NoSuchBucket and does not for AccessDenied.
ListBucketsErrors ==
    {[type |-> "ClientError", Code |-> "AccessDenied", operation |-> "ListBuckets"]}

ListObjectsErrors(name) ==
    {[type |-> "ClientError", Code |-> "AccessDenied", operation |-> "ListObjectsV2"],
     [type |-> "ClientError", Code |-> "NoSuchBucket", operation |-> "ListObjectsV2",
      BucketName |-> name]}

SizesOf(contents) == [i \in 1..Len(contents) |-> contents[i].Size]

\* number_of_ojects after the loop over page["Contents"], one more per object.
CountPage_PerPage(n, page) == IF "Contents" \in DOMAIN page THEN n + 1 ELSE n

CountPage(n, page) == IF "Contents" \in DOMAIN page THEN n + Len(page.Contents) ELSE n

\* The sum of obj["Size"] over page["Contents"], for each page that has the key
\* (a table, for the sum of a page to be computed once).
ContentsBytes ==
    [p \in {q \in Pages : "Contents" \in DOMAIN q} |-> SumSeq(SizesOf(p.Contents))]

\* total_bucket_size after the loop over page["Contents"].
SizePage(size, page) ==
    IF "Contents" \in DOMAIN page THEN Add(size, ContentsBytes[page]) ELSE size

AccumulateTotal_Overwrite(ts, tbs) == tbs

\* total_size += total_bucket_size
AccumulateTotal(ts, tbs) == Add(ts, tbs)

\* The lines s3_usage prints after the loop, from the last bucket's size.
ReportLines_LastBucket(bv, ts) ==
    <<[kind |-> "json", value |-> bv],
      [kind |-> "text", value |-> <<"\n">>],
      [kind |-> "text",
       value |-> <<"Total size of all buckets: ">> \o size_converter(total_bucket_size)]>>

\* The lines s3_usage prints after the loop.
ReportLines(bv, ts) ==
    <<[kind |-> "json", value |-> bv],
      [kind |-> "text", value |-> <<"\n">>],
      [kind |-> "text", value |-> <<"Total size of all buckets: ">> \o size_converter(ts)]>>

\* An exception leaving s3_usage with the partial results printed on the way.
Unwind_PrintsPartial(e) ==
    [pc |-> "failed", raised |-> e,
     stdout |-> Append(stdout, [kind |-> "json", value |-> bucket_values])]

\* An exception of the S3 client leaves s3_usage, which catches nothing.
Unwind(e) == [pc |-> "failed", raised |-> e, stdout |-> stdout]

InitUsage ==
    /\ pc = "list_buckets"
    /\ raised = NoException
    /\ stdout = <<>>
    /\ byte_size = <<>> /\ result = None
    /\ buckets = <<>> /\ bucket_idx = 0 /\ pages = <<>>
    /\ total_size = <<>>
    /\ total_bucket_size = <<>> /\ number_of_ojects = 0 /\ bucket_values = <<>>
    /\ args = None /\ start_date = None /\ end_date = None /\ now = None
    /\ total = FALSE
    /\ granularity = "MONTHLY" /\ ce_calls = <<>> /\ response = <<>>
    /\ total_cost = [isfloat |-> FALSE, v |-> 0] /\ cost_breakdown = <<>>

RECURSIVE CountAll(_)
\* The number of elements of a sequence of sequences: of pages yielded so far
\* over all buckets, of groups read over all time buckets.
CountAll(ps) == IF ps = <<>> THEN 0 ELSE Len(Head(ps)) + CountAll(Tail(ps))

\* response = self.s3_client.list_buckets(); bucket_values = {}
ListBuckets ==
    /\ pc = "list_buckets"
    /\ \E names \in BucketLists :
        /\ buckets' = [i \in 1..Len(names) |-> Bucket(names[i])]
        /\ pages' = [i \in 1..Len(names) |-> <<>>]
    /\ bucket_values' = <<>>
    /\ pc' = "for_bucket"
    /\ UNCHANGED <<raised, stdout, sizeVars, bucket_idx, total_size,
                   total_bucket_size, number_of_ojects, costVars>>

ListBucketsFails ==
    /\ pc = "list_buckets"
    /\ \E e \in ListBucketsErrors :
        /\ pc' = Unwind(e).pc
        /\ raised' = Unwind(e).raised
        /\ stdout' = Unwind(e).stdout
    /\ UNCHANGED <<sizeVars, usageVars, costVars>>

\* for bucket in response["Buckets"]: the next bucket, its counters at zero.
ForBucket ==
    /\ pc = "for_bucket"
    /\ bucket_idx < Len(buckets)
    /\ bucket_idx' = bucket_idx + 1
    /\ total_bucket_size' = <<>>
    /\ number_of_ojects' = 0
    /\ pc' = "paginate"
    /\ UNCHANGED <<raised, stdout, sizeVars, buckets, pages, total_size,
                   bucket_values, costVars>>

\* for page in paginator.paginate(...): the paginator yields one more page.
Page ==
    /\ pc = "paginate"
    /\ CountAll(pages) < MaxPages
    /\ \E page \in Pages :
        /\ pages' = [pages EXCEPT ![bucket_idx] = Append(@, page)]
        /\ total_bucket_size' = SizePage(total_bucket_size, page)
        /\ number_of_ojects' = CountPage(number_of_ojects, page)
    /\ UNCHANGED <<pc, raised, stdout, sizeVars, buckets, bucket_idx, total_size,
                   bucket_values, costVars>>

\* The paginator raises while fetching the next page.
PageFails ==
    /\ pc = "paginate"
    /\ \E e \in ListObjectsErrors(buckets[bucket_idx].Name) :
        /\ pc' = Unwind(e).pc
        /\ raised' = Unwind(e).raised
        /\ stdout' = Unwind(e).stdout
    /\ UNCHANGED <<sizeVars, usageVars, costVars>>

\* The paginator is exhausted: the bucket is recorded.
EndOfPages ==
    /\ pc = "paginate"
    /\ total_size' = AccumulateTotal(total_size, total_bucket_size)
    /\ bucket_values' =
         DictSet(bucket_values, buckets[bucket_idx].Name,
                 [objects |-> number_of_ojects,
                  size |-> size_converter(total_bucket_size)])
    /\ pc' = "for_bucket"
    /\ UNCHANGED <<raised, stdout, sizeVars, buckets, bucket_idx, pages,
                   total_bucket_size, number_of_ojects, costVars>>

\* After the last bucket: the report is printed.
Report ==
    /\ pc = "for_bucket"
    /\ bucket_idx = Len(buckets)
    /\ stdout' = stdout \o ReportLines(bucket_values, total_size)
    /\ pc' = "done"
    /\ UNCHANGED <<raised, sizeVars, usageVars, costVars>>

NextUsage ==
    \/ ListBuckets
    \/ ListBucketsFails
    \/ ForBucket
    \/ Page
    \/ PageFails
    \/ EndOfPages
    \/ Report

SpecUsage == InitUsage /\ [][NextUsage]_vars

---------------------------------------------------------------------------
(* Properties of s3_usage *)

RECURSIVE AllSizes(_)
\* The sizes of the object records on a sequence of pages, in order.
AllSizes(ps) ==
    IF ps = <<>> THEN <<>>
    ELSE (IF "Contents" \in DOMAIN Head(ps) THEN SizesOf(Head(ps).Contents) ELSE <<>>)
         \o AllSizes(Tail(ps))

\* The sizes of the object records on each page, and their sum.
RecordSizes == [p \in Pages |-> AllSizes(<<p>>)]
RecordBytes == [p \in Pages |-> SumSeq(RecordSizes[p])]

\* The number of object records the paginator yielded for bucket i.
BucketRecords(i) == CountAll([k \in 1..Len(pages[i]) |-> RecordSizes[pages[i][k]]])

\* The bytes of all object records the paginator yielded for bucket i.
BucketBytes(i) == SumSeq([k \in 1..Len(pages[i]) |-> RecordBytes[pages[i][k]]])

\* The buckets recorded in bucket_values: the first so many of the listing.
RecordedBuckets == 1..Len(bucket_values)

TotalIsSumOfRecorded ==
    total_size = SumSeq([i \in RecordedBuckets |-> BucketBytes(i)])

TotalOnlyGrowsByBucket ==
    total_size' # total_size =>
        /\ pc = "paginate" /\ pc' = "for_bucket"
        /\ Len(bucket_values') = Len(bucket_values) + 1
        /\ total_size' = Add(total_size, BucketBytes(bucket_idx))

\* C3: whenever a container has been recorded, and at the end of the pass,
\* total_size is the sum of the byte sizes of the containers recorded so far;
\* total_size changes only in the step that records a container, by that
\* container's size.
C3_RunningTotal == [](TotalIsSumOfRecorded) /\ [][TotalOnlyGrowsByBucket]_vars

\* C3 witness: two containers are recorded, A with 300 bytes and B with 50.
C3_Witness ==
    /\ pc = "done"
    /\ Len(bucket_values) = 2
    /\ BucketBytes(1) = Num(300) /\ BucketBytes(2) = Num(50)
    /\ total_size = Num(350)

\* C4: for every container the object count is the number of object records
\* over all its pages and the accumulated size is the sum of their sizes, while
\* it is scanned and when it is recorded; a page with no records or without
\* "Contents" adds nothing and does not end the scan. Containers A (100, 200)
\* and B (50) give A 2 objects, B 50 bytes and a total of 350.
C4_CountsEveryRecord ==
    /\ pc = "paginate" =>
        /\ number_of_ojects = BucketRecords(bucket_idx)
        /\ total_bucket_size = BucketBytes(bucket_idx)
    /\ \A i \in RecordedBuckets :
        /\ bucket_values[i].key = buckets[i].Name
        /\ bucket_values[i].value.objects = BucketRecords(i)
        /\ bucket_values[i].value.size = size_converter(BucketBytes(i))
    /\ ( /\ pc = "done"
         /\ DictKeys(bucket_values) = <<"A", "B">>
         /\ pages = <<(<<PageOf(<<Num(100), Num(200)>>)>>), (<<PageOf(<<Num(50)>>)>>)>> )
       => /\ DictGet(bucket_values, "A").objects = 2
          /\ DictGet(bucket_values, "B").size = <<"5", "0", ".", "0", " ", "B">>
          /\ total_size = Num(350)

\* C4 witness: a container is recorded whose first page had no "Contents", whose
\* second had no records and whose third had two.
C4_Witness ==
    /\ pc = "for_bucket"
    /\ Len(bucket_values) = 1
    /\ pages[1] = <<NoContentsPage, PageOf(<<>>), PageOf(<<Num(100), Num(200)>>)>>
    /\ bucket_values[1].value.objects = 2

\* 50,000,000,000,000, 450,000,000,000,000 and 500,000,000,000,000 bytes.
Tier1Limit == <<0, 840, 131, 486, 45>>
Tier2Limit == <<0, 392, 162, 279, 409>>
Tier3Start == <<0, 208, 294, 765, 454>>

InTierGap(b) == Less(Tier2Limit, b) /\ Less(b, Tier3Start)

\* The per-GB price of the claim's tiers, in thousandths of a dollar.
ClaimedPricePerGB(b) ==
    IF Leq(b, Tier1Limit) THEN 23 ELSE IF Leq(b, Tier2Limit) THEN 22 ELSE 21

AllBytes == SumSeq([i \in 1..Len(pages) |-> BucketBytes(i)])

C7_AbortsWithoutOutput ==
    pc = "failed" =>
        /\ stdout = <<>>
        /\ ~ENABLED NextUsage
        /\ raised \in (IF bucket_idx = 0 THEN ListBucketsErrors
                       ELSE ListObjectsErrors(buckets[bucket_idx].Name))

\* C7 witness: a page fetch fails for the second container, after the first
\* was recorded.
C7_Witness ==
    pc = "failed" /\ bucket_idx = 2 /\ Len(bucket_values) = 1 /\ total_size # <<>>

\* C7 (as stated): on a failure nothing is printed, and the failure reported
\* carries the id of the container being scanned.
C7_AsStated ==
    pc = "failed" =>
        /\ stdout = <<>>
        /\ bucket_idx >= 1 =>
            /\ "BucketName" \in DOMAIN raised
            /\ raised.BucketName = buckets[bucket_idx].Name

---------------------------------------------------------------------------
(* datetime *)

\* A str argument that is a date: "y-m-d", whether or not the date exists.
DateStr(y, m, d) == [t |-> "str", y |-> y, m |-> m, d |-> d]

\* The str arguments that are no "y-m-d".
EmptyStr == [t |-> "str", text |-> ""]
SlashDate == [t |-> "str", text |-> "03/31/2025"]

Datetime(day, sec) == [t |-> "datetime", day |-> day, sec |-> sec]

\* What a failed operation returns in the model: the exception it raises.
Exception(type, msg) == [type |-> type, msg |-> msg]

IsException(x) == "type" \in DOMAIN x

\* bool(x) for an argument: None and "" are false.
Truthy(x) == x # None /\ x # EmptyStr

IsLeap(y) == (y % 4 = 0 /\ y % 100 # 0) \/ y % 400 = 0

DaysInMonth(y, m) ==
    IF m \in {4, 6, 9, 11} THEN 30 ELSE IF m = 2 THEN (IF IsLeap(y) THEN 29 ELSE 28) ELSE 31

DaysBeforeYear(y) ==
    (y - 1) * 365 + ((y - 1) \div 4) - ((y - 1) \div 100) + ((y - 1) \div 400)

RECURSIVE DaysBeforeMonth(_, _)
DaysBeforeMonth(y, m) ==
    IF m = 1 THEN 0 ELSE DaysBeforeMonth(y, m - 1) + DaysInMonth(y, m - 1)

\* date(y, m, d).toordinal(): day 1 is 0001-01-01.
ToOrdinal(y, m, d) == DaysBeforeYear(y) + DaysBeforeMonth(y, m) + d

\* The years the dates of the model fall in.
Years == 2024..2100

YearOf(n) == CHOOSE y \in Years : DaysBeforeYear(y) < n /\ n <= DaysBeforeYear(y + 1)

MonthOf(n) ==
    LET y == YearOf(n)
        k == n - DaysBeforeYear(y)
    IN  CHOOSE m \in 1..12 : DaysBeforeMonth(y, m) < k /\ k <= DaysBeforeMonth(y, m) + DaysInMonth(y, m)

DayOf(n) == n - DaysBeforeYear(YearOf(n)) - DaysBeforeMonth(YearOf(n), MonthOf(n))

\* datetime.strptime(s, "%Y-%m-%d"): midnight of the day, or ValueError.
strptime(s) ==
    IF /\ "y" \in DOMAIN s
       /\ s.y \in 1..9999 /\ s.m \in 1..12
       /\ s.d \in 1..DaysInMonth(s.y, s.m)
    THEN Datetime(ToOrdinal(s.y, s.m, s.d), 0)
    ELSE Exception("ValueError", "time data does not match format '%Y-%m-%d'")

\* dt.strftime("%Y-%m-%d"): the time of day is dropped.
strftime(dt) == DateStr(YearOf(dt.day), MonthOf(dt.day), DayOf(dt.day))

ThirtyDays == 30

\* x - timedelta(days=n): defined for a datetime, TypeError for str and None.
MinusDays(x, n) ==
    IF x.t = "datetime" THEN Datetime(x.day - n, x.sec)
    ELSE Exception("TypeError", "unsupported operand type(s) for -")

\* a <= b, a > b for datetimes
DtLeq(a, b) == a.day < b.day \/ (a.day = b.day /\ a.sec <= b.sec)
DtGreater(a, b) == ~DtLeq(a, b)

DayName == <<"Monday", "Tuesday", "Wednesday", "Thursday", "Friday", "Saturday", "Sunday">>
MonthAbbr == <<"Jan", "Feb", "Mar", "Apr", "May", "Jun", "Jul", "Aug", "Sep", "Oct",
               "Nov", "Dec">>

\* n as two digits
TwoDigits(n) == <<DigitChar[(n \div 10) + 1], DigitChar[(n % 10) + 1]>>

\* date(dt): dt.strftime("%A %b %d, %Y")
date(dt) ==
    <<DayName[((dt.day + 6) % 7) + 1], " ", MonthAbbr[MonthOf(dt.day)], " ">>
    \o TwoDigits(DayOf(dt.day)) \o <<",", " ">> \o Digits(YearOf(dt.day))

---------------------------------------------------------------------------
(* cost_explorer *)

MaxResults == 2         \* time buckets in response["ResultsByTime"]
MaxGroups == 3          \* groups in the response, over all time buckets

Granularity == {"HOURLY", "DAILY", "MONTHLY"}

Services == {"Amazon Simple Storage Service", "AWS Lambda"}

\* float(Amount), in 10^-5 dollars: zero, a credit, half of the last rounded
\* digit, 12.0 and 0.345.
Amounts == {0, 0 - 5, 5, 1200000, 34500}

\* datetime.now(): noon of 2025-03-31.
Nows == {Datetime(ToOrdinal(2025, 3, 31), 43200)}

StartArgs == {None, EmptyStr, DateStr(2025, 3, 31), DateStr(2099, 1, 1),
              DateStr(2025, 2, 30)}

EndArgs == {None, DateStr(2025, 1, 1), DateStr(2025, 3, 31), SlashDate}

FutureStart == Exception("AssertionError", "start_date cannot be in the future")
BadRange == Exception("AssertionError", "end_date cannot be greater than start date")
QueryError ==
    [type |-> "ClientError", Code |-> "AccessDeniedException",
     operation |-> "GetCostAndUsage"]

\* The asserts with end_date >= start_date for the second.
CheckDates_AllowsEqual(start, end, clock) ==
    IF ~DtLeq(start, clock) THEN FutureStart
    ELSE IF DtGreater(start, end) THEN BadRange
    ELSE NoException

\* assert start_date <= now; assert end_date > start_date
CheckDates(start, end, clock) ==
    IF ~DtLeq(start, clock) THEN FutureStart
    ELSE IF ~DtGreater(end, start) THEN BadRange
    ELSE NoException

\* The keyword arguments of get_cost_and_usage.
Request(start, end, gran, tot) ==
    IF tot
    THEN [TimePeriod |-> [Start |-> strftime(start), End |-> strftime(end)],
          Granularity |-> gran, Metrics |-> <<"UnblendedCost">>]
    ELSE [TimePeriod |-> [Start |-> strftime(start), End |-> strftime(end)],
          Granularity |-> gran, Metrics |-> <<"UnblendedCost">>,
          GroupBy |-> <<[Type |-> "DIMENSION", Key |-> "SERVICE"]>>]

\* The body of the loop over groups with the zero test left out.
AddCost_ZeroCreates(cb, service, cost) ==
    IF DictHas(cb, service) /\ DictGet(cb, service) # 0
    THEN DictSet(cb, service, DictGet(cb, service) + cost)
    ELSE DictSet(cb, service, cost)

\* The body of the loop over groups with an updated key moved to the end.
AddCost_Reinserts(cb, service, cost) ==
    IF cost = 0 THEN cb
    ELSE IF DictHas(cb, service)
    THEN Append(SelectSeq(cb, LAMBDA e : e.key # service),
                [key |-> service, value |-> DictGet(cb, service) + cost])
    ELSE DictSet(cb, service, cost)

\* The body of the loop over groups: cost_breakdown after one group.
AddCost(cb, service, cost) ==
    IF cost = 0 THEN cb
    ELSE IF DictHas(cb, service) /\ DictGet(cb, service) # 0
    THEN DictSet(cb, service, DictGet(cb, service) + cost)
    ELSE DictSet(cb, service, cost)

Abs(n) == IF n < 0 THEN 0 - n ELSE n

\* round(value, digits) of a float of 10^-5 dollars, as sign and magnitude in
\* units of the last kept digit, `step` being 10^(5 - digits). A value half-way
\* between two neighbours in decimal is not so as a double, and which neighbour
\* is the nearer depends on the double: `up` tells.
Round(value, step, up) ==
    LET q == Abs(value) \div step
        r == Abs(value) % step
    IN  [neg |-> value < 0,
         mag |-> IF 2 * r < step THEN q
                 ELSE IF 2 * r > step THEN q + 1
                 ELSE IF up THEN q + 1 ELSE q]

Sign(rounded) == IF rounded.neg THEN <<"-">> ELSE <<>>

\* n as four digits
FourDigits(n) == TwoDigits(n \div 100) \o TwoDigits(n % 100)

\* f"{rounded:.4f}"
Fixed4(rounded) ==
    Sign(rounded) \o Digits(rounded.mag \div 10000) \o <<".">> \o FourDigits(rounded.mag % 10000)

\* The rendering without the branch for whole numbers.
RenderCost_NoIntegerBranch(rounded, value) ==
    IF rounded.mag = 0
    THEN [text |-> Fixed4(rounded), raw |-> <<value>>]
    ELSE [text |-> Fixed4(rounded), raw |-> <<>>]

\* The three branches on `rounded`: the text of `cost`, and the raw value
\* that is printed in brackets after a zero.
RenderCost(rounded, value) ==
    IF rounded.mag = 0
    THEN [text |-> Fixed4(rounded), raw |-> <<value>>]
    ELSE IF rounded.mag % 10000 = 0
    THEN [text |-> Sign(rounded) \o Digits(rounded.mag \div 10000), raw |-> <<>>]
    ELSE [text |-> Fixed4(rounded), raw |-> <<>>]

\* f"{round(total_cost, 2)}" for a float total_cost, rounded to hundredths.
RenderTotal(rounded) == Sign(rounded) \o PyFloat2(rounded.mag)

\* The number of groups read so far.
GroupsRead == CountAll([i \in 1..Len(response) |-> response[i].Groups])

InitCost ==
    /\ pc = "resolve_start"
    /\ raised = NoException
    /\ stdout = <<>>
    /\ byte_size = <<>> /\ result = None
    /\ buckets = <<>> /\ bucket_idx = 0 /\ pages = <<>> /\ total_size = <<>>
    /\ total_bucket_size = <<>> /\ number_of_ojects = 0 /\ bucket_values = <<>>
    /\ start_date \in StartArgs
    /\ end_date \in EndArgs
    /\ args = [start_date |-> start_date, end_date |-> end_date]
    /\ now \in Nows
    /\ total \in BOOLEAN
    /\ granularity \in Granularity
    \* the breakdown is asked for at the default granularity
    /\ total \/ granularity = "MONTHLY"
    /\ ce_calls = <<>> /\ response = <<>>
    /\ total_cost = [isfloat |-> FALSE, v |-> 0] /\ cost_breakdown = <<>>

\* if start_date: ... else: start_date = end_date - timedelta(days=30)
ResolveStart ==
    /\ pc = "resolve_start"
    /\ LET r == IF Truthy(start_date) THEN strptime(start_date)
                ELSE MinusDays(end_date, ThirtyDays)
       IN  IF IsException(r)
           THEN pc' = "failed" /\ raised' = r /\ UNCHANGED start_date
           ELSE pc' = "resolve_end" /\ start_date' = r /\ UNCHANGED raised
    /\ UNCHANGED <<stdout, sizeVars, usageVars, args, end_date, now, total,
                   granularity, ce_calls, response, total_cost, cost_breakdown>>

\* if end_date: ... else: end_date = now
ResolveEnd ==
    /\ pc = "resolve_end"
    /\ LET r == IF Truthy(end_date) THEN strptime(end_date) ELSE now
       IN  IF IsException(r)
           THEN pc' = "failed" /\ raised' = r /\ UNCHANGED end_date
           ELSE pc' = "validate" /\ end_date' = r /\ UNCHANGED raised
    /\ UNCHANGED <<stdout, sizeVars, usageVars, args, start_date, now, total,
                   granularity, ce_calls, response, total_cost, cost_breakdown>>

\* The two asserts.
Validate ==
    /\ pc = "validate"
    /\ raised' = CheckDates(start_date, end_date, now)
    /\ pc' = IF raised' = NoException THEN "query" ELSE "failed"
    /\ UNCHANGED <<stdout, sizeVars, usageVars, costVars>>

\* response = self.ce_client.get_cost_and_usage(...), and the empty accumulator.
Query ==
    /\ pc = "query"
    /\ ce_calls' = Append(ce_calls, Request(start_date, end_date, granularity, total))
    /\ response' = <<>>
    /\ total_cost' = [isfloat |-> FALSE, v |-> 0]
    /\ cost_breakdown' = <<>>
    /\ pc' = "for_result"
    /\ UNCHANGED <<raised, stdout, sizeVars, usageVars, args, start_date, end_date,
                   now, total, granularity>>

\* get_cost_and_usage raises.
QueryFails ==
    /\ pc = "query"
    /\ ce_calls' = Append(ce_calls, Request(start_date, end_date, granularity, total))
    /\ raised' = QueryError
    /\ pc' = "failed"
    /\ UNCHANGED <<stdout, sizeVars, usageVars, args, start_date, end_date, now,
                   total, granularity, response, total_cost, cost_breakdown>>

\* total: the next time bucket, its amount added to total_cost.
TotalResult ==
    /\ pc = "for_result" /\ total
    /\ Len(response) < MaxResults
    /\ \E amount \in Amounts :
        /\ response' = Append(response, [Total |-> amount])
        /\ total_cost' = [isfloat |-> TRUE, v |-> total_cost.v + amount]
    /\ UNCHANGED <<pc, raised, stdout, sizeVars, usageVars, args, start_date,
                   end_date, now, total, granularity, ce_calls, cost_breakdown>>

\* total: the time buckets are exhausted and the total is printed.
PrintTotal ==
    /\ pc = "for_result" /\ total
    /\ \E up \in BOOLEAN :
        stdout' = Append(stdout,
            [kind |-> "total", start |-> date(start_date), end |-> date(end_date),
             cost |-> IF total_cost.isfloat
                      THEN RenderTotal(Round(total_cost.v, 1000, up)) ELSE <<"0">>])
    /\ pc' = "done"
    /\ UNCHANGED <<raised, sizeVars, usageVars, costVars>>

\* breakdown: the next time bucket begins.
NextResult ==
    /\ pc = "for_result" /\ ~total
    /\ Len(response) < MaxResults
    /\ response' = Append(response, [Groups |-> <<>>])
    /\ UNCHANGED <<pc, raised, stdout, sizeVars, usageVars, args, start_date,
                   end_date, now, total, granularity, ce_calls, total_cost,
                   cost_breakdown>>

\* breakdown: the next group of the time bucket.
Group ==
    /\ pc = "for_result" /\ ~total
    /\ Len(response) > 0
    /\ GroupsRead < MaxGroups
    /\ \E service \in Services, cost \in Amounts :
        /\ response' = [response EXCEPT ![Len(response)].Groups =
                            Append(@, [Keys |-> <<service>>, Amount |-> cost])]
        /\ cost_breakdown' = AddCost(cost_breakdown, service, cost)
    /\ UNCHANGED <<pc, raised, stdout, sizeVars, usageVars, args, start_date,
                   end_date, now, total, granularity, ce_calls, total_cost>>

\* breakdown: the time buckets are exhausted; the heading and every item of
\* cost_breakdown are printed.
PrintBreakdown ==
    /\ pc = "for_result" /\ ~total
    /\ \E up \in [1..Len(cost_breakdown) -> BOOLEAN] :
        stdout' = Append(stdout,
                    [kind |-> "heading", start |-> date(start_date),
                     end |-> date(end_date)])
                  \o [i \in 1..Len(cost_breakdown) |->
                        [kind |-> "service", key |-> cost_breakdown[i].key,
                         cost |-> RenderCost(Round(cost_breakdown[i].value, 10, up[i]),
                                             cost_breakdown[i].value)]]
    /\ pc' = "done"
    /\ UNCHANGED <<raised, sizeVars, usageVars, costVars>>

NextCost ==
    \/ ResolveStart
    \/ ResolveEnd
    \/ Validate
    \/ Query
    \/ QueryFails
    \/ TotalResult
    \/ PrintTotal
    \/ NextResult
    \/ Group
    \/ PrintBreakdown

SpecCost == InitCost /\ [][NextCost]_vars

---------------------------------------------------------------------------
(* Properties of cost_explorer *)

\* The end date and the start date the specification resolves an omitted start to.
ClaimedEnd == IF Truthy(args.end_date) THEN strptime(args.end_date) ELSE now
ClaimedStart == MinusDays(ClaimedEnd, ThirtyDays)

\* C1 (as stated): once the dates are resolved, a call without start_date,
\* whose end_date is omitted or is a date, has not failed: its end is the
\* given end or now, and its start is that end minus 30 days (2025-03-01 for
\* an end of 2025-03-31).
C1_AsStated ==
    ( /\ pc \notin {"resolve_start", "resolve_end"}
      /\ ~Truthy(args.start_date)
      /\ ~IsException(ClaimedEnd) )
    => /\ raised.type \notin {"TypeError", "ValueError"}
       /\ end_date = ClaimedEnd
       /\ start_date = ClaimedStart
       /\ args.end_date = DateStr(2025, 3, 31) => strftime(start_date) = DateStr(2025, 3, 1)

DatesResolved ==
    pc \notin {"resolve_start", "resolve_end", "validate"}
    /\ start_date.t = "datetime" /\ end_date.t = "datetime"

RECURSIVE Flatten(_)
\* The groups read so far, over all time buckets, in order.
Flatten(rs) == IF rs = <<>> THEN <<>> ELSE Head(rs).Groups \o Flatten(Tail(rs))

AllGroups == IF total THEN <<>> ELSE Flatten(response)

RECURSIVE SumAmounts(_, _)
\* The sum of the amounts of a service over a sequence of groups.
SumAmounts(gs, service) ==
    IF gs = <<>> THEN 0
    ELSE (IF Head(gs).Keys[1] = service THEN Head(gs).Amount ELSE 0)
         + SumAmounts(Tail(gs), service)

\* The places in the groups read where a service contributes.
Seen(service) == {i \in 1..Len(AllGroups) : AllGroups[i].Keys[1] = service}
SeenNonZero(service) == {i \in Seen(service) : AllGroups[i].Amount # 0}

Min(S) == CHOOSE x \in S : \A y \in S : x <= y

BreakdownIsSumOfNonZero ==
    \A service \in Services :
        /\ DictHas(cost_breakdown, service) <=> SeenNonZero(service) # {}
        /\ DictHas(cost_breakdown, service) =>
               DictGet(cost_breakdown, service) = SumAmounts(AllGroups, service)

\* A step that reads a zero amount leaves cost_breakdown as it is, and no step
\* removes a key.
ZeroChangesNothing ==
    /\ \A service \in Services :
           DictHas(cost_breakdown, service) => DictHas(cost_breakdown', service)
    /\ ( /\ Len(AllGroups') = Len(AllGroups) + 1
         /\ AllGroups'[Len(AllGroups')].Amount = 0 )
       => cost_breakdown' = cost_breakdown

\* C6: in breakdown mode a zero contribution creates no entry and removes or
\* changes none; at every point of the reduction a service is in
\* cost_breakdown exactly if it has made a non-zero contribution, and then
\* with the sum of its contributions over all time buckets.
C6_ZeroSkipped == [](BreakdownIsSumOfNonZero) /\ [][ZeroChangesNothing]_vars

\* C6 witness: a service with a non-zero contribution in one time bucket has
\* a zero contribution in the next and is still in cost_breakdown.
C6_Witness ==
    /\ pc = "for_result"
    /\ response = <<[Groups |-> <<[Keys |-> <<"AWS Lambda">>, Amount |-> 1200000]>>],
                    [Groups |-> <<[Keys |-> <<"AWS Lambda">>, Amount |-> 0]>>]>>
    /\ cost_breakdown = <<[key |-> "AWS Lambda", value |-> 1200000]>>

\* The text without its sign.
Unsigned(text) == IF text # <<>> /\ text[1] = "-" THEN Tail(text) ELSE text

DotsIn(text) == {i \in 1..Len(text) : text[i] = "."}

\* The text is a 4-digit zero, and the raw value is attached.
ZeroForm(cost, v) ==
    /\ Unsigned(cost.text) = <<"0", ".", "0", "0", "0", "0">>
    /\ cost.raw = <<v>>
    /\ Abs(v) <= 5

\* The text is a whole number other than zero, the nearest to v.
IntegerForm(cost, v) ==
    /\ IsNumeral(Unsigned(cost.text))
    /\ cost.raw = <<>>
    /\ IntOf(Unsigned(cost.text)) > 0
    /\ Abs(Abs(v) - 100000 * IntOf(Unsigned(cost.text))) <= 5

\* The text has exactly 4 fractional digits and is neither zero nor whole; it
\* is v to the nearest 10^-4.
FixedForm(cost, v) ==
    LET u == Unsigned(cost.text)
    IN  /\ Len(u) >= 6 /\ DotsIn(u) = {Len(u) - 4}
        /\ IsNumeral(SubSeq(u, 1, Len(u) - 5)) /\ IsNumeral(SubSeq(u, Len(u) - 3, Len(u)))
        /\ cost.raw = <<>>
        /\ IntOf(SubSeq(u, Len(u) - 3, Len(u))) # 0
        /\ Abs(Abs(v) - 10 * (10000 * IntOf(SubSeq(u, 1, Len(u) - 5))
                               + IntOf(SubSeq(u, Len(u) - 3, Len(u))))) <= 5

\* C8: when the breakdown is printed, every item of cost_breakdown is printed,
\* in order, in exactly one of three forms: a sum that rounds to zero as the
\* 4-digit zero with the raw value, a sum that rounds to a whole number without
\* a fractional part (12.0 as 12), any other with exactly 4 fractional digits
\* (12.345 as 12.3450).
C8_ThreeRenderings ==
    (pc = "done" /\ ~total) =>
        /\ Len(stdout) = 1 + Len(cost_breakdown)
        /\ \A i \in 1..Len(cost_breakdown) :
            LET item == stdout[i + 1]
                v == cost_breakdown[i].value
            IN  /\ item.kind = "service"
                /\ item.key = cost_breakdown[i].key
                /\ (item.cost.text[1] = "-") <=> (v < 0)
                /\ \/ ZeroForm(item.cost, v)
                   \/ IntegerForm(item.cost, v)
                   \/ FixedForm(item.cost, v)
                /\ v = 1200000 => item.cost.text = <<"1", "2">>
                /\ v = 1234500 => item.cost.text = <<"1", "2", ".", "3", "4", "5", "0">>

\* C8 witness: a breakdown is printed with one service at 12.345, one at zero
\* with its raw value, and no other.
C8_Witness ==
    /\ pc = "done" /\ ~total
    /\ Len(stdout) = 3
    /\ \E i, j \in 2..3 :
        /\ stdout[i].cost.text = <<"1", "2", ".", "3", "4", "5", "0">>
        /\ stdout[j].cost.text = <<"0", ".", "0", "0", "0", "0">>
        /\ stdout[j].cost.raw = <<5>>

KeysInOrderOfFirstNonZero ==
    /\ \A i \in 1..Len(cost_breakdown) : SeenNonZero(cost_breakdown[i].key) # {}
    /\ \A i, j \in 1..Len(cost_breakdown) :
        i < j => Min(SeenNonZero(cost_breakdown[i].key))
                    < Min(SeenNonZero(cost_breakdown[j].key))

KeysKeepTheirPlace ==
    \A i \in 1..Len(cost_breakdown) :
        /\ i <= Len(cost_breakdown')
        /\ cost_breakdown'[i].key = cost_breakdown[i].key

PrintedInDictOrder ==
    (pc = "done" /\ ~total) =>
        [i \in 1..Len(cost_breakdown) |-> stdout[i + 1].key] = DictKeys(cost_breakdown)

\* C10 (as amended): in breakdown mode the categories of the result are in the
\* order of their first non-zero contribution, and are printed in that order;
\* an earlier zero-valued appearance earns no place; once a category has its
\* place, later contributions never change it.
C10_FirstNonZeroOrder ==
    [](KeysInOrderOfFirstNonZero /\ PrintedInDictOrder) /\ [][KeysKeepTheirPlace]_vars

\* C10 witness: a category seen first with zero and given its first non-zero
\* amount after another category comes second; its next amount brings its sum
\* to zero and it stays where it is.
C10_Witness ==
    /\ AllGroups = <<[Keys |-> <<"AWS Lambda">>, Amount |-> 0],
                     [Keys |-> <<"Amazon Simple Storage Service">>, Amount |-> 5],
                     [Keys |-> <<"AWS Lambda">>, Amount |-> 5]>>
    /\ DictKeys(cost_breakdown) = <<"Amazon Simple Storage Service", "AWS Lambda">>

\* C10 (as stated): the categories of the result are in the order in which
\* each was first seen, a zero-valued first appearance included.
C10_AsStated ==
    \A i, j \in 1..Len(cost_breakdown) :
        i < j => Min(Seen(cost_breakdown[i].key)) < Min(Seen(cost_breakdown[j].key))

===========================================================================
